---- MODULE Spec2Model ----
(***************************************************************************)
(* A model of scripts/content.js: the leaf coercers, the array             *)
(* reconstruction, the two tree walkers, root selection and document       *)
(* assembly (getFirestoreJSON), the message listener, and the copy-button  *)
(* injection and feedback.                                                  *)
(*                                                                         *)
(* Text.  A JavaScript string is a sequence of tokens.  A token stands for *)
(* a fixed run of characters: one character (" ", "\"", "-", "/", a digit, *)
(* a letter) or a whole word that the code only ever compares as a unit    *)
(* ("true", "(map)", ...).  trim, startsWith, endsWith, slice, split,      *)
(* toLowerCase, Number and parseInt are computed on the token sequence as  *)
(* the JavaScript functions compute them on the characters.                *)
(***************************************************************************)
EXTENDS Integers, Sequences, FiniteSets

VARIABLES
    doc,        \* the rendered view (a DOM tree), read-only for the parsers
    pathname,   \* window.location.pathname
    arg,        \* the input of the function under call (pure-function specifications)
    call,       \* the function last called and the element it was called on
    ret,        \* what that call returned (or the response sent / error thrown)
    hostname,   \* window.location.hostname
    scopes,     \* the panels / field lists the host page has rendered
    buttons,    \* the Copy JSON buttons created so far
    records,    \* MutationObserver: are mutation records queued for the callback?
    unseen      \* has the DOM changed (or never been looked at) since injectButton last ran?

vars == <<doc, pathname, arg, call, ret, hostname, scopes, buttons, records, unseen>>

(***************************************************************************)
(* Bounds of the model.                                                    *)
(***************************************************************************)
MaxTextLen == 3
MaxEntries == 3
MaxSiblings == 2
MaxRegions == 2
MaxPathLen == 3
MaxScopes == 2
MaxClicks == 2

(***************************************************************************)
(* Strings as token sequences.                                             *)
(***************************************************************************)
WS == " "
QUOTE == "\""
EmptyString == << >>

DigitTokens == <<"0", "1", "2", "3", "4", "5", "6", "7", "8", "9">>

IsDigit(t) == \E i \in 1..10 : DigitTokens[i] = t

DigitVal(t) == (CHOOSE i \in 1..10 : DigitTokens[i] = t) - 1

\* String.prototype.trim: white space removed at both ends.
RECURSIVE TrimStart(_)
TrimStart(s) ==
    IF s # << >> /\ Head(s) = WS THEN TrimStart(Tail(s)) ELSE s

RECURSIVE TrimEnd(_)
TrimEnd(s) ==
    IF s # << >> /\ s[Len(s)] = WS THEN TrimEnd(SubSeq(s, 1, Len(s) - 1)) ELSE s

Trim(s) == TrimEnd(TrimStart(s))

StartsWith(s, t) == s # << >> /\ s[1] = t

EndsWith(s, t) == s # << >> /\ s[Len(s)] = t

\* s.slice(1, -1)
Slice1(s) == SubSeq(s, 2, Len(s) - 1)

LowerToken(t) ==
    CASE t = "TRUE" -> "true"
      [] t = "True" -> "true"
      [] t = "FALSE" -> "false"
      [] t = "False" -> "false"
      [] t = "NULL" -> "null"
      [] t = "Null" -> "null"
      [] t = "X" -> "x"
      [] t = "(MAP)" -> "(map)"
      [] t = "(ARRAY)" -> "(array)"
      [] t = "(NUMBER)" -> "(number)"
      [] t = "(Number)" -> "(number)"
      [] t = "(STRING)" -> "(string)"
      [] t = "(String)" -> "(string)"
      [] t = "(BOOLEAN)" -> "(boolean)"
      [] t = "(NULL)" -> "(null)"
      [] OTHER -> t

\* String.prototype.toLowerCase
ToLowerCase(s) == [i \in 1..Len(s) |-> LowerToken(s[i])]

(***************************************************************************)
(* JavaScript values.                                                      *)
(***************************************************************************)
JsNull == [k |-> "null"]
Undefined == [k |-> "undefined"]
NaN == [k |-> "NaN"]
Bool(b) == [k |-> "boolean", b |-> b]
Num(n) == [k |-> "number", n |-> n]
Str(s) == [k |-> "string", s |-> s]
\* A plain object: m maps each own key (a string) to its value.
Obj(m) == [k |-> "object", m |-> m]
\* An array: its length, its elements by index (an index of 0..len-1 that is not
\* in the domain of at is a hole), and its non-index own properties.
Arr(len, at, props) == [k |-> "array", len |-> len, at |-> at, props |-> props]

EmptyMap == << >>
EmptyObj == Obj(EmptyMap)
EmptyArr == Arr(0, << >>, << >>)

\* obj[key] for a plain object's map
Get(m, key) == IF key \in DOMAIN m THEN m[key] ELSE Undefined

\* obj[key] = value
Put(m, key, value) ==
    [x \in (DOMAIN m) \cup {key} |-> IF x = key THEN value ELSE m[x]]

(***************************************************************************)
(* Number(), parseInt(, 10), Number.prototype.toString.                    *)
(***************************************************************************)
AllDigits(s) == s # << >> /\ \A i \in 1..Len(s) : IsDigit(s[i])

RECURSIVE DigitsValue(_)
DigitsValue(s) ==
    IF s = << >> THEN 0
    ELSE 10 * DigitsValue(SubSeq(s, 1, Len(s) - 1)) + DigitVal(s[Len(s)])

\* Number(string): white space trimmed, the empty string is 0, a signed decimal
\* integer is its value, anything else over the token alphabet is NaN.
\* (-0 is not told apart from 0: JSON.stringify prints both as 0.)
Number(s) ==
    LET t == Trim(s) IN
    IF t = << >> THEN Num(0)
    ELSE IF AllDigits(t) THEN Num(DigitsValue(t))
    ELSE IF t[1] \in {"-", "+"} /\ AllDigits(Tail(t))
         THEN Num((IF t[1] = "-" THEN -1 ELSE 1) * DigitsValue(Tail(t)))
    ELSE NaN

isNaN(v) == v = NaN

RECURSIVE DigitPrefix(_)
DigitPrefix(s) ==
    IF s # << >> /\ IsDigit(Head(s)) THEN <<Head(s)>> \o DigitPrefix(Tail(s)) ELSE << >>

\* parseInt(string, 10): leading white space skipped, an optional sign, then the
\* longest prefix of digits; NaN when there is no digit.
parseInt(s) ==
    LET t == TrimStart(s)
        signed == t # << >> /\ t[1] \in {"-", "+"}
        body == IF signed THEN Tail(t) ELSE t
        digits == DigitPrefix(body)
    IN  IF digits = << >> THEN NaN
        ELSE Num((IF signed /\ t[1] = "-" THEN -1 ELSE 1) * DigitsValue(digits))

RECURSIVE NatToString(_)
NatToString(n) ==
    IF n < 10 THEN <<DigitTokens[n + 1]>>
    ELSE NatToString(n \div 10) \o <<DigitTokens[(n % 10) + 1]>>

\* ToString(number): the property key a numeric index turns into.
ToString(n) == IF n < 0 THEN <<"-">> \o NatToString(-n) ELSE NatToString(n)

(***************************************************************************)
(* parseLeafValue (production, untyped).                                   *)
(***************************************************************************)
parseLeafValue_keepQuotes(rawText) ==
    LET value == Trim(rawText)
        lowerVal == ToLowerCase(value)
        asNumber == Number(value)
    IN  IF lowerVal = <<"true">> THEN Bool(TRUE)
        ELSE IF lowerVal = <<"false">> THEN Bool(FALSE)
        ELSE IF lowerVal = <<"null">> THEN JsNull
        ELSE IF ~isNaN(asNumber) /\ value # EmptyString THEN asNumber
        ELSE Str(value)

parseLeafValue(rawText) ==
    LET trimmed == Trim(rawText)
        value == IF StartsWith(trimmed, QUOTE) /\ EndsWith(trimmed, QUOTE)
                 THEN Slice1(trimmed) ELSE trimmed
        lowerVal == ToLowerCase(value)
        asNumber == Number(value)
    IN  IF lowerVal = <<"true">> THEN Bool(TRUE)
        ELSE IF lowerVal = <<"false">> THEN Bool(FALSE)
        ELSE IF lowerVal = <<"null">> THEN JsNull
        ELSE IF ~isNaN(asNumber) /\ value # EmptyString THEN asNumber
        ELSE Str(value)

(***************************************************************************)
(* parseEmulatorLeafValue (emulator, typed).  raw is << >> for null or     *)
(* undefined and <<s>> for the string s.                                   *)
(***************************************************************************)
parseEmulatorLeafValue(raw, type) ==
    LET t == ToLowerCase(type)
        val == IF raw = << >> THEN EmptyString ELSE Trim(raw[1])
    IN  IF t = <<"(null)">> THEN JsNull
        ELSE IF t = <<"(boolean)">> THEN Bool(val = <<"true">>)
        ELSE IF t = <<"(number)">> THEN Number(val)
        ELSE IF t = <<"(string)">>
             THEN IF StartsWith(val, QUOTE) /\ EndsWith(val, QUOTE)
                  THEN Str(Slice1(val)) ELSE Str(val)
        ELSE Str(val)

(***************************************************************************)
(* convertMapToArray (emulator).                                           *)
(***************************************************************************)
SetMin(S) == CHOOSE x \in S : \A y \in S : x <= y

\* The sorted list of the keys' parseInt values that are not NaN: one entry per
\* key, so a number two keys parse to ("1" and "01") comes twice.
RECURSIVE SortedKeys(_, _)
SortedKeys(mapObj, S) ==
    IF S = {} THEN << >>
    ELSE LET n == SetMin(S)
             count == Cardinality({key \in DOMAIN mapObj : parseInt(key) = Num(n)})
         IN  [i \in 1..count |-> n] \o SortedKeys(mapObj, S \ {n})

convertMapToArray(mapObj) ==
    LET parsed == {parseInt(key) : key \in DOMAIN mapObj}
        keys == SortedKeys(mapObj, {p.n : p \in {q \in parsed : ~isNaN(q)}})
    IN  IF Len(keys) = 0 THEN EmptyArr
        ELSE Arr(Len(keys),
                 [i \in 0..(Len(keys) - 1) |-> Get(mapObj, ToString(keys[i + 1]))],
                 << >>)

(***************************************************************************)
(* The DOM.  An element is a record: its tag, its class list, its title    *)
(* attribute (<< >> when absent, <<s>> when set to s), its own text (which *)
(* precedes its child elements) and its child elements in document order.  *)
(* An element of a document is named by its path from the root: the child  *)
(* indices to follow.  NoElement is JavaScript's null.                     *)
(***************************************************************************)
NoElement == <<0>>

RECURSIVE At(_, _)
At(e, p) == IF p = << >> THEN e ELSE At(e.kids[Head(p)], Tail(p))

\* The strict descendants of the element e at path p, in document order, from
\* its i-th child on.
RECURSIVE KidsPaths(_, _, _)
KidsPaths(e, p, i) ==
    IF i > Len(e.kids) THEN << >>
    ELSE <<Append(p, i)>> \o KidsPaths(e.kids[i], Append(p, i), 1) \o KidsPaths(e, p, i + 1)

Descendants(d, p) == KidsPaths(At(d, p), p, 1)

Children(d, p) == [i \in 1..Len(At(d, p).kids) |-> Append(p, i)]

RECURSIVE KidsText(_, _)
KidsText(e, i) ==
    IF i > Len(e.kids) THEN << >>
    ELSE e.kids[i].text \o KidsText(e.kids[i], 1) \o KidsText(e, i + 1)

\* Node.textContent
textContent(d, p) == At(d, p).text \o KidsText(At(d, p), 1)

\* element.getAttribute("title"): << >> for null
getAttributeTitle(d, p) == At(d, p).title

\* element.classList.contains(c)
classListContains(d, p, c) == c \in At(d, p).cls

\* element.nextElementSibling
nextElementSibling(d, p) ==
    IF p = << >> THEN NoElement
    ELSE LET parent == SubSeq(p, 1, Len(p) - 1)
             i == p[Len(p)]
         IN  IF i < Len(At(d, parent).kids) THEN Append(parent, i + 1) ELSE NoElement

\* A compound selector's simple part: a tag (or "" for any) and a class (or ""
\* for any).
Sel(tag, cls) == [tag |-> tag, cls |-> cls]

Matches(e, sel) ==
    /\ sel.tag = "" \/ e.tag = sel.tag
    /\ sel.cls = "" \/ sel.cls \in e.cls

First(s) == IF s = << >> THEN NoElement ELSE s[1]

\* element.querySelectorAll("sel") and element.querySelector("sel")
querySelectorAll(d, p, sel) ==
    SelectSeq(Descendants(d, p), LAMBDA q : Matches(At(d, q), sel))

querySelector(d, p, sel) == First(querySelectorAll(d, p, sel))

\* element.querySelectorAll(":scope > sel")
scopeChildrenAll(d, p, sel) ==
    SelectSeq(Children(d, p), LAMBDA q : Matches(At(d, q), sel))

scopeChild(d, p, sel) == First(scopeChildrenAll(d, p, sel))

\* element.querySelector("anc sel"): the first descendant of the element that
\* matches sel and has an ancestor matching anc; the ancestor may be the element
\* itself or lie above it, as selectors are matched against the whole document.
querySelectorUnder(d, p, anc, sel) ==
    First(SelectSeq(Descendants(d, p), LAMBDA q :
        /\ Matches(At(d, q), sel)
        /\ \E n \in 0..(Len(q) - 1) : Matches(At(d, SubSeq(q, 1, n)), anc)))

\* element.querySelector(":scope anc sel"): as above, with the ancestor a
\* descendant of the element.
querySelectorScopeUnder(d, p, anc, sel) ==
    First(SelectSeq(Descendants(d, p), LAMBDA q :
        /\ Matches(At(d, q), sel)
        /\ \E n \in (Len(p) + 1)..(Len(q) - 1) : Matches(At(d, SubSeq(q, 1, n)), anc)))

\* document.querySelectorAll("sel"): the root element counts.
documentQuerySelectorAll(d, sel) ==
    (IF Matches(d, sel) THEN << << >> >> ELSE << >>) \o querySelectorAll(d, << >>, sel)

documentQuerySelector(d, sel) == First(documentQuerySelectorAll(d, sel))

RECURSIVE Flatten(_)
Flatten(ss) == IF ss = << >> THEN << >> ELSE Head(ss) \o Flatten(Tail(ss))

(***************************************************************************)
(* Production walkers: parseNode, parseMap, parseArray.                    *)
(***************************************************************************)
\* resultArray[index] = value: an element for an array index, and an ordinary
\* property (which length and JSON.stringify do not see) for a negative number.
\* (An index of 2^32 - 1 or more is a property too; the keys of the model are
\* MaxTextLen tokens at most and stay far below.)
ArraySet(arr, index, value) ==
    IF index >= 0
    THEN Arr(IF index + 1 > arr.len THEN index + 1 ELSE arr.len,
             Put(arr.at, index, value), arr.props)
    ELSE Arr(arr.len, arr.at, Put(arr.props, ToString(index), value))

\* The .database-node elements the two nested forEach loops visit, in order.
nodeElementsOf(d, databaseChildren) ==
    LET dataTrees == scopeChildrenAll(d, databaseChildren, Sel("f7e-data-tree", ""))
    IN  Flatten([i \in 1..Len(dataTrees) |->
                    scopeChildrenAll(d, dataTrees[i], Sel("", "database-node"))])

AssignKeepFirst(target, source) ==
    [x \in (DOMAIN target) \cup (DOMAIN source) |->
        IF x \in DOMAIN target THEN target[x] ELSE source[x]]

\* Object.assign(target, source)
ObjectAssign(target, source) ==
    [x \in (DOMAIN target) \cup (DOMAIN source) |->
        IF x \in DOMAIN source THEN source[x] ELSE target[x]]

RECURSIVE parseNode(_, _), parseMap(_, _), parseArray(_, _)
RECURSIVE parseMapLoop(_, _, _), parseArrayLoop(_, _, _)

\* The field key a node declares: the trimmed text of its .database-key.
fieldKeyOf(d, element) ==
    Trim(textContent(d, querySelector(d, element, Sel("", "database-key"))))

\* The type label of a node: the trimmed text of its type marker, or "(unknown)".
typeTextOf(d, element) ==
    LET typeDiv == querySelectorUnder(d, element, Sel("", "database-buttons"),
                                      Sel("", "database-type"))
    IN  IF typeDiv # NoElement THEN Trim(textContent(d, typeDiv)) ELSE <<"(unknown)">>

\* The value of a node that has no container type: its leaf text, or null.
leafValueOf(d, element) ==
    LET leafSpan == querySelector(d, element, Sel("", "database-leaf-value"))
    IN  IF leafSpan # NoElement THEN parseLeafValue(textContent(d, leafSpan)) ELSE JsNull

parseNode(d, nodeElement) ==
    LET keySpan == querySelector(d, nodeElement, Sel("", "database-key")) IN
    IF keySpan = NoElement THEN EmptyMap
    ELSE
    LET fieldKey == fieldKeyOf(d, nodeElement)
        typeText == typeTextOf(d, nodeElement)
        container == scopeChild(d, nodeElement, Sel("", "database-children"))
        value == IF typeText = <<"(map)">> THEN parseMap(d, container)
                 ELSE IF typeText = <<"(array)">> THEN parseArray(d, container)
                 ELSE leafValueOf(d, nodeElement)
    IN  [x \in {fieldKey} |-> value]

parseMapLoop(d, nodeElements, mapResult) ==
    IF nodeElements = << >> THEN mapResult
    ELSE parseMapLoop(d, Tail(nodeElements),
                      ObjectAssign(mapResult, parseNode(d, Head(nodeElements))))

parseMapNullWhenAbsent(d, databaseChildren) ==
    IF databaseChildren = NoElement THEN JsNull
    ELSE Obj(parseMapLoop(d, nodeElementsOf(d, databaseChildren), EmptyMap))

parseMap(d, databaseChildren) ==
    IF databaseChildren = NoElement THEN EmptyObj
    ELSE Obj(parseMapLoop(d, nodeElementsOf(d, databaseChildren), EmptyMap))

parseArrayLoop(d, nodeElements, resultArray) ==
    IF nodeElements = << >> THEN resultArray
    ELSE LET parsedObj == parseNode(d, Head(nodeElements))
             key == CHOOSE x \in DOMAIN parsedObj : TRUE
             index == parseInt(key)
         IN  parseArrayLoop(d, Tail(nodeElements),
                 IF DOMAIN parsedObj # {} /\ ~isNaN(index)
                 THEN ArraySet(resultArray, index.n, parsedObj[key])
                 ELSE resultArray)

parseArray(d, databaseChildren) ==
    IF databaseChildren = NoElement THEN EmptyArr
    ELSE parseArrayLoop(d, nodeElementsOf(d, databaseChildren), EmptyArr)

(***************************************************************************)
(* Emulator walker: parseEmulatorContainer.                                *)
(***************************************************************************)
RECURSIVE parseEmulatorContainer(_, _), parseEmulatorItems(_, _, _)

\* The value the forEach body computes for one item that has a key.
emulatorItemValue(d, item) ==
    LET typeElem == querySelector(d, item, Sel("", "FieldPreview-type"))
        type == IF typeElem # NoElement THEN Trim(textContent(d, typeElem))
                ELSE EmptyString
        nextSibling == nextElementSibling(d, item)
        summaryElem == querySelector(d, item, Sel("", "FieldPreview-summary"))
        title == getAttributeTitle(d, summaryElem)
        raw == IF summaryElem = NoElement THEN <<EmptyString>>
               ELSE IF title = << >> THEN <<textContent(d, summaryElem)>>
               ELSE title
    IN  IF type = <<"(map)">> \/ type = <<"(array)">>
        THEN IF nextSibling # NoElement
                /\ classListContains(d, nextSibling, "FieldPreview-children")
             THEN LET children == parseEmulatorContainer(d, nextSibling)
                  IN  IF type = <<"(array)">> THEN convertMapToArray(children.m)
                      ELSE children
             ELSE IF type = <<"(array)">> THEN EmptyArr ELSE EmptyObj
        ELSE parseEmulatorLeafValue(raw, type)

parseEmulatorItems(d, items, data) ==
    IF items = << >> THEN data
    ELSE LET item == Head(items)
             keyElem == querySelector(d, item, Sel("", "FieldPreview-key"))
         IN  parseEmulatorItems(d, Tail(items),
                 IF keyElem = NoElement THEN data
                 ELSE Put(data, Trim(textContent(d, keyElem)), emulatorItemValue(d, item)))

parseEmulatorContainer(d, container) ==
    IF container = NoElement THEN EmptyObj
    ELSE Obj(parseEmulatorItems(d, scopeChildrenAll(d, container, Sel("li", "FieldPreview")),
                                EmptyMap))

(***************************************************************************)
(* getFirestoreJSON: root selection, the walk, the document identifier and *)
(* the wrapper.  contextRoot is NoElement when the argument is omitted.    *)
(***************************************************************************)
FieldListSel == Sel("", "Firestore-Field-List")
PanelSel == Sel("", "panel-container")

\* Step 1: the value of emulatorRoot when step 2 starts.
emulatorRootOf(d, contextRoot) ==
    IF contextRoot # NoElement
    THEN IF classListContains(d, contextRoot, "Firestore-Field-List") THEN contextRoot
         ELSE IF classListContains(d, contextRoot, "panel-container") THEN NoElement
         ELSE querySelector(d, contextRoot, FieldListSel)
    ELSE documentQuerySelector(d, FieldListSel)

LastOf(s) == IF Len(s) > 0 THEN s[Len(s)] ELSE NoElement

FirstOf(s) == IF Len(s) > 0 THEN s[1] ELSE NoElement

productionPanelPicksFirst(d, contextRoot) ==
    IF contextRoot # NoElement
    THEN IF classListContains(d, contextRoot, "Firestore-Field-List") THEN NoElement
         ELSE IF classListContains(d, contextRoot, "panel-container") THEN contextRoot
         ELSE IF querySelector(d, contextRoot, FieldListSel) # NoElement THEN NoElement
         ELSE contextRoot
    ELSE IF documentQuerySelector(d, FieldListSel) # NoElement THEN NoElement
    ELSE LET panelsContainer == documentQuerySelector(d, Sel("", "panels-container"))
         IN  IF panelsContainer = NoElement THEN NoElement
             ELSE FirstOf(querySelectorAll(d, panelsContainer, PanelSel))

productionPanelAnywhere(d, contextRoot) ==
    IF contextRoot # NoElement
    THEN IF classListContains(d, contextRoot, "Firestore-Field-List") THEN NoElement
         ELSE IF classListContains(d, contextRoot, "panel-container") THEN contextRoot
         ELSE IF querySelector(d, contextRoot, FieldListSel) # NoElement THEN NoElement
         ELSE contextRoot
    ELSE IF documentQuerySelector(d, FieldListSel) # NoElement THEN NoElement
    ELSE LastOf(documentQuerySelectorAll(d, PanelSel))

\* Step 1: the value of productionPanel when step 2 starts.
productionPanelOf(d, contextRoot) ==
    IF contextRoot # NoElement
    THEN IF classListContains(d, contextRoot, "Firestore-Field-List") THEN NoElement
         ELSE IF classListContains(d, contextRoot, "panel-container") THEN contextRoot
         ELSE IF querySelector(d, contextRoot, FieldListSel) # NoElement THEN NoElement
         ELSE contextRoot
    ELSE IF documentQuerySelector(d, FieldListSel) # NoElement THEN NoElement
    ELSE LET panelsContainer == documentQuerySelector(d, Sel("", "panels-container"))
         IN  IF panelsContainer = NoElement THEN NoElement
             ELSE LastOf(querySelectorAll(d, panelsContainer, PanelSel))

\* string.split(separator)
RECURSIVE Split(_, _)
Split(s, sep) ==
    IF \E i \in 1..Len(s) : s[i] = sep
    THEN LET i == CHOOSE j \in 1..Len(s) : s[j] = sep /\ \A h \in 1..(j - 1) : s[h] # sep
         IN  <<SubSeq(s, 1, i - 1)>> \o Split(SubSeq(s, i + 1, Len(s)), sep)
    ELSE <<s>>

\* The emulator path's document identifier.
emulatorDocId(loc) ==
    LET parts == Split(loc, "/")
    IN  IF Len(parts) > 0 THEN parts[Len(parts)] ELSE <<"unknown_doc">>

\* The production path's document identifier.
productionDocId(d, productionPanel) ==
    LET docIdElement == querySelectorScopeUnder(d, productionPanel,
                            Sel("f7e-panel-header", ""), Sel("", "label"))
    IN  IF docIdElement # NoElement THEN Trim(textContent(d, docIdElement))
        ELSE <<"UNKNOWN_DOCUMENT_ID">>

\* The production path's loop over the panel's fs-animate-change-classes elements.
RECURSIVE productionFields(_, _, _)
productionFields(d, animateElements, dataObject) ==
    IF animateElements = << >> THEN dataObject
    ELSE LET element == Head(animateElements)
             keySpan == querySelector(d, element, Sel("", "database-key"))
             typeText == typeTextOf(d, element)
             container == querySelector(d, element, Sel("", "database-children"))
             value == IF typeText = <<"(map)">> THEN parseMap(d, container)
                      ELSE IF typeText = <<"(array)">> THEN parseArray(d, container)
                      ELSE leafValueOf(d, element)
         IN  productionFields(d, Tail(animateElements),
                 IF keySpan = NoElement THEN dataObject
                 ELSE Put(dataObject, fieldKeyOf(d, element), value))

\* The production path's dataObject: the loop run over every
\* fs-animate-change-classes element of the panel.
productionWalk(d, productionPanel) ==
    Obj(productionFields(d,
            querySelectorAll(d, productionPanel, Sel("fs-animate-change-classes", "")),
            EmptyMap))

\* JSON.stringify(value, null, 2).  The text is represented by the JSON value it
\* denotes: NaN, undefined elements and holes print as null, undefined members
\* and an array's non-index properties are left out.
RECURSIVE JsonValue(_)
JsonValue(v) ==
    CASE v.k = "object" ->
            Obj([x \in {y \in DOMAIN v.m : v.m[y].k # "undefined"} |-> JsonValue(v.m[x])])
      [] v.k = "array" ->
            Arr(v.len,
                [i \in 0..(v.len - 1) |->
                    IF i \in DOMAIN v.at /\ v.at[i].k # "undefined"
                    THEN JsonValue(v.at[i]) ELSE JsNull],
                << >>)
      [] v.k = "NaN" -> JsNull
      [] OTHER -> v

JSONstringify(v) == [json |-> JsonValue(v)]

Ok(docId, fields) ==
    LET finalJson == Obj([x \in {docId} |-> fields])
    IN  [status |-> "ok", docId |-> docId, data |-> finalJson,
         jsonString |-> JSONstringify(finalJson)]

Thrown(message) == [thrown |-> message]

NoDataMessage == "No Firestore data found (Production or Emulator)."

getFirestoreJSON(d, loc, contextRoot) ==
    LET emulatorRoot == emulatorRootOf(d, contextRoot)
        productionPanel == productionPanelOf(d, contextRoot)
    IN  IF emulatorRoot # NoElement
        THEN Ok(emulatorDocId(loc), parseEmulatorContainer(d, emulatorRoot))
        ELSE IF productionPanel # NoElement
        THEN Ok(productionDocId(d, productionPanel), productionWalk(d, productionPanel))
        ELSE Thrown(NoDataMessage)

\* The chrome.runtime.onMessage listener's response; none for another action.
NoResponse == [none |-> TRUE]

onMessage(d, loc, action) ==
    IF action # "fetchFirestore" THEN NoResponse
    ELSE LET result == getFirestoreJSON(d, loc, NoElement)
         IN  IF "thrown" \in DOMAIN result
             THEN [status |-> "error", message |-> result.thrown]
             ELSE [status |-> "ok", data |-> result.jsonString]

(***************************************************************************)
(* Inputs of the pure-function specifications.                             *)
(***************************************************************************)
RECURSIVE SeqsUpTo(_, _)
SeqsUpTo(S, n) ==
    IF n = 0 THEN {<< >>}
    ELSE LET shorter == SeqsUpTo(S, n - 1)
         IN  shorter \cup {Append(s, x) : s \in {t \in shorter : Len(t) = n - 1}, x \in S}

LeafAlphabet == {WS, QUOTE, "1", "-", "x", "true", "TRUE", "null"}
LeafTexts == SeqsUpTo(LeafAlphabet, MaxTextLen)
TypeLabels ==
    {EmptyString, <<"(null)">>, <<"(boolean)">>, <<"(number)">>, <<"(NUMBER)">>,
     <<"(string)">>, <<"(String)">>, <<"(timestamp)">>}

ArrayKeys ==
    {<<"0">>, <<"1">>, <<"2">>, <<"x">>, <<"-", "1">>, <<"0", "1">>, <<"1", "x">>, <<"4">>}
ArrayValues == {Str(<<"A">>), Str(<<"B">>)}
MapObjs ==
    UNION {[S -> ArrayValues] : S \in {T \in SUBSET ArrayKeys : Cardinality(T) <= MaxEntries}}

NoCall == [fn |-> "none"]
NoArg == [none |-> TRUE]
NoDoc == [none |-> TRUE]

UiIdle ==
    /\ hostname = "none"
    /\ scopes = << >>
    /\ buttons = << >>
    /\ records = FALSE
    /\ unseen = TRUE

uiVars == <<hostname, scopes, buttons, records, unseen>>

(***************************************************************************)
(* SpecLeaf: the two leaf coercers applied to every text and type label.   *)
(***************************************************************************)
InitLeaf ==
    /\ doc = NoDoc
    /\ pathname = EmptyString
    /\ arg \in [rawText : LeafTexts, absent : BOOLEAN, type : TypeLabels]
    /\ (arg.absent => arg.rawText = EmptyString)
    /\ call = NoCall
    /\ ret = Undefined
    /\ UiIdle

CallParseLeafValue ==
    /\ call = NoCall
    /\ ~arg.absent
    /\ arg.type = EmptyString
    /\ call' = [fn |-> "parseLeafValue"]
    /\ ret' = parseLeafValue(arg.rawText)
    /\ UNCHANGED <<doc, pathname, arg, uiVars>>

CallParseEmulatorLeafValue ==
    /\ call = NoCall
    /\ call' = [fn |-> "parseEmulatorLeafValue"]
    /\ ret' = parseEmulatorLeafValue(IF arg.absent THEN << >> ELSE <<arg.rawText>>, arg.type)
    /\ UNCHANGED <<doc, pathname, arg, uiVars>>

NextLeaf == CallParseLeafValue \/ CallParseEmulatorLeafValue

SpecLeaf == InitLeaf /\ [][NextLeaf]_vars

(***************************************************************************)
(* SpecArray: convertMapToArray applied to every small map.                *)
(***************************************************************************)
InitArray ==
    /\ doc = NoDoc
    /\ pathname = EmptyString
    /\ arg \in [mapObj : MapObjs]
    /\ call = NoCall
    /\ ret = Undefined
    /\ UiIdle

CallConvertMapToArray ==
    /\ call = NoCall
    /\ call' = [fn |-> "convertMapToArray"]
    /\ ret' = convertMapToArray(arg.mapObj)
    /\ UNCHANGED <<doc, pathname, arg, uiVars>>

NextArray == CallConvertMapToArray

SpecArray == InitArray /\ [][NextArray]_vars

(***************************************************************************)
(* Claims about the leaf coercers (SpecLeaf) and convertMapToArray         *)
(* (SpecArray).                                                            *)
(***************************************************************************)
\* A signed decimal integer literal.
IsNumericLiteral(s) ==
    \/ AllDigits(s)
    \/ Len(s) > 1 /\ s[1] \in {"-", "+"} /\ AllDigits(Tail(s))

NumericLiteralValue(s) ==
    IF AllDigits(s) THEN DigitsValue(s)
    ELSE (IF s[1] = "-" THEN -1 ELSE 1) * DigitsValue(Tail(s))

\* C5 (as claimed): under the label (number), parseEmulatorLeafValue yields the
\* number for numeric text and the not-a-number sentinel for every other text,
\* the empty text and the absent summary's empty raw value included.
C5_NumberLabelNaNUnlessNumeric ==
    (call.fn = "parseEmulatorLeafValue" /\ arg.type = <<"(number)">>) =>
        LET text == Trim(arg.rawText) IN
        IF IsNumericLiteral(text) THEN ret = Num(NumericLiteralValue(text))
        ELSE ret = NaN

IsQuoteWrapped(s) == Len(s) >= 2 /\ s[1] = QUOTE /\ s[Len(s)] = QUOTE

TrueTokens == {"true", "TRUE", "True"}
FalseTokens == {"false", "FALSE", "False"}
NullTokens == {"null", "NULL", "Null"}

IsBlank(s) == s # << >> /\ \A i \in 1..Len(s) : s[i] = WS

\* C6 (as claimed): a text "<inner>" coerces to the String <inner> under both
\* strategies.
C6_QuotedIsStringBothStrategies ==
    (/\ ~arg.absent
     /\ IsQuoteWrapped(arg.rawText)
     /\ \/ call.fn = "parseLeafValue"
        \/ call.fn = "parseEmulatorLeafValue" /\ arg.type = <<"(string)">>)
    => ret = Str(SubSeq(arg.rawText, 2, Len(arg.rawText) - 1))

\* C6 (amended): a text "<inner>" coerces to the String <inner> under the typed
\* strategy with label (string); under the untyped strategy it coerces to the
\* String <inner> unless <inner> is true, false or null in any letter case, or a
\* non-empty text Number() accepts (white space only, or a numeric literal with
\* white space around it), and then to that boolean, null or number.
C6_QuotedStripsOneLayer ==
    (~arg.absent /\ IsQuoteWrapped(arg.rawText)) =>
        LET inner == SubSeq(arg.rawText, 2, Len(arg.rawText) - 1) IN
        /\ (call.fn = "parseEmulatorLeafValue" /\ arg.type = <<"(string)">>)
              => ret = Str(inner)
        /\ call.fn = "parseLeafValue" =>
              IF Len(inner) = 1 /\ inner[1] \in TrueTokens THEN ret = Bool(TRUE)
              ELSE IF Len(inner) = 1 /\ inner[1] \in FalseTokens THEN ret = Bool(FALSE)
              ELSE IF Len(inner) = 1 /\ inner[1] \in NullTokens THEN ret = JsNull
              ELSE IF IsBlank(inner) THEN ret = Num(0)
              ELSE IF IsNumericLiteral(Trim(inner))
                   THEN ret = Num(NumericLiteralValue(Trim(inner)))
              ELSE ret = Str(inner)

C6_Witness ==
    /\ call.fn = "parseLeafValue"
    /\ arg.rawText = <<QUOTE, "x", QUOTE>>
    /\ ret = Str(<<"x">>)

\* A key that is a non-negative integer written canonically.
IsIndexKey(key) == AllDigits(key) /\ ToString(DigitsValue(key)) = key

\* C1 (as claimed): convertMapToArray yields a sequence of length (max index
\* key + 1) with each entry's value at the position of its key and Null at every
\* other position; non-numeric and negative keys are dropped, and the result is
\* empty when no key survives.
C1_ReconstructFillsGaps ==
    call.fn = "convertMapToArray" =>
        LET mapObj == arg.mapObj
            valid == {key \in DOMAIN mapObj : IsIndexKey(key)}
            max == CHOOSE n \in {DigitsValue(key) : key \in valid} :
                       \A key \in valid : DigitsValue(key) <= n
        IN  IF valid = {} THEN ret = EmptyArr
            ELSE /\ ret.k = "array"
                 /\ ret.len = max + 1
                 /\ DOMAIN ret.at = 0..max
                 /\ \A i \in 0..max :
                       ret.at[i] = IF ToString(i) \in valid THEN mapObj[ToString(i)]
                                   ELSE JsNull

(***************************************************************************)
(* The rendered trees the walkers are applied to.                          *)
(***************************************************************************)
El(tag, cls, text, kids) ==
    [tag |-> tag, cls |-> cls, title |-> << >>, text |-> text, kids |-> kids]

Titled(e, title) == [e EXCEPT !.title = <<title>>]

Range(s) == {s[i] : i \in 1..Len(s)}

AllPaths(d) == {<< >>} \cup Range(Descendants(d, << >>))

WithClass(d, cls) == {q \in AllPaths(d) : cls \in At(d, q).cls}

\* Emulator rendering.
BKey(k) == El("span", {"FieldPreview-key"}, k, << >>)
BType(t) == El("span", {"FieldPreview-type"}, <<t>>, << >>)
BSummary(text) == El("span", {"FieldPreview-summary"}, text, << >>)
BItem(kids) == El("li", {"FieldPreview"}, << >>, kids)
BChildren(kids) == El("ul", {"FieldPreview-children"}, << >>, kids)
FieldList(kids) == El("ul", {"Firestore-Field-List"}, << >>, kids)

BStringItem(k, text) == BItem(<<BKey(k), BType("(string)"), BSummary(<<QUOTE>> \o text \o <<QUOTE>>)>>)

BTypedItems ==
    {BItem(<<BKey(<<"a">>), BType("(map)")>>),
     BItem(<<BKey(<<"1">>), BType("(array)")>>)}

EmulatorSiblings ==
    {BItem(<<BKey(<<"0">>), BType("(string)"),
             Titled(BSummary(<<QUOTE, "x">>), <<QUOTE, "x", "x", QUOTE>>)>>),
     BItem(<<BKey(<<"1">>), BType("(number)"), BSummary(<<"1">>)>>),
     BItem(<<BKey(<<"0", WS>>), BType("(number)")>>),
     BItem(<<BType("(string)"), BSummary(<<"y">>)>>),
     BChildren(<<BStringItem(<<"1">>, <<"y">>), BStringItem(<<"0">>, <<"z">>)>>)}
    \cup BTypedItems

EmulatorDocs ==
    LET runs == SeqsUpTo(EmulatorSiblings, MaxSiblings)
    IN  {FieldList(s) : s \in runs}
        \cup {FieldList(<<t, BChildren(s)>>) : t \in BTypedItems, s \in runs}

\* Production rendering.
AKey(k) == El("span", {"database-key"}, k, << >>)
AButtons(t) == El("div", {"database-buttons"}, << >>, <<El("div", {"database-type"}, <<t>>, << >>)>>)
ALeaf(text) == El("span", {"database-leaf-value"}, text, << >>)
AChildren(trees) == El("div", {"database-children"}, << >>, trees)
ATree(nodes) == El("f7e-data-tree", {}, << >>, nodes)
ANode(kids) == El("div", {"database-node"}, << >>, kids)
Animate(kids) == El("fs-animate-change-classes", {}, << >>, kids)
Header(label) == El("f7e-panel-header", {}, << >>, <<El("span", {"label"}, label, << >>)>>)
Panel(kids) == El("div", {"panel-container"}, << >>, kids)

AStringNode(k, text) == ANode(<<AKey(k), AButtons("(string)"), ALeaf(<<QUOTE>> \o text \o <<QUOTE>>)>>)

ProductionSiblings ==
    {AStringNode(<<"0">>, <<"x">>),
     ANode(<<AKey(<<"1">>), AButtons("(number)"), ALeaf(<<"1">>)>>),
     ANode(<<AKey(<<"0", WS>>), ALeaf(<<"true">>)>>),
     ANode(<<AKey(<<"a">>), AButtons("(map)")>>),
     ANode(<<AKey(<<"1">>), AButtons("(array)")>>),
     ANode(<<AButtons("(string)"), ALeaf(<<"y">>)>>),
     ANode(<<AKey(<<"a">>), AButtons("(array)"),
             AChildren(<<ATree(<<AStringNode(<<"1">>, <<"y">>),
                                 AStringNode(<<"0">>, <<"z">>)>>)>>)>>)}

ProductionDocs ==
    LET runs == SeqsUpTo(ProductionSiblings, MaxSiblings)
        forests == {<<ATree(s)>> : s \in runs}
                   \cup {<<ATree(<<x>>), ATree(<<y>>)>> : x, y \in ProductionSiblings}
        label == <<"doc", "1">>
    IN  {Panel(<<Header(label)>> \o [i \in 1..Len(s) |-> Animate(<<s[i]>>)]) : s \in runs}
        \cup {Panel(<<Animate(<<n>>)>>) : n \in ProductionSiblings}
        \cup {Panel(<<Header(label),
                      Animate(<<ANode(<<AKey(<<"f">>), AButtons(t), AChildren(f)>>)>>)>>) :
                 t \in {"(map)", "(array)"}, f \in forests}

WalkPathname == <<"/", "docs", "/", "d1">>

(***************************************************************************)
(* SpecWalk: the walkers applied to every container and node of a rendered *)
(* record, and getFirestoreJSON applied to the record's scope.             *)
(***************************************************************************)
InitWalk ==
    /\ doc \in EmulatorDocs \cup ProductionDocs
    /\ pathname = WalkPathname
    /\ arg = NoArg
    /\ call = NoCall
    /\ ret = Undefined
    /\ UiIdle

Called(fn, el, result) ==
    /\ call = NoCall
    /\ call' = [fn |-> fn, el |-> el]
    /\ ret' = result
    /\ UNCHANGED <<doc, pathname, arg, uiVars>>

CallParseNode ==
    \E nodeElement \in WithClass(doc, "database-node") :
        Called("parseNode", nodeElement, parseNode(doc, nodeElement))

CallParseMap ==
    \E databaseChildren \in WithClass(doc, "database-children") :
        Called("parseMap", databaseChildren, parseMap(doc, databaseChildren))

CallParseArray ==
    \E databaseChildren \in WithClass(doc, "database-children") :
        Called("parseArray", databaseChildren, parseArray(doc, databaseChildren))

CallParseEmulatorContainer ==
    \E container \in WithClass(doc, "Firestore-Field-List")
                     \cup WithClass(doc, "FieldPreview-children") :
        Called("parseEmulatorContainer", container, parseEmulatorContainer(doc, container))

CallGetFirestoreJSON ==
    \E contextRoot \in WithClass(doc, "Firestore-Field-List")
                       \cup WithClass(doc, "panel-container") :
        Called("getFirestoreJSON", contextRoot, getFirestoreJSON(doc, pathname, contextRoot))

NextWalk ==
    \/ CallParseNode
    \/ CallParseMap
    \/ CallParseArray
    \/ CallParseEmulatorContainer
    \/ CallGetFirestoreJSON

SpecWalk == InitWalk /\ [][NextWalk]_vars

(***************************************************************************)
(* Claims about the walkers (SpecWalk).                                    *)
(***************************************************************************)
IsPrefix(p, q) == Len(p) <= Len(q) /\ SubSeq(q, 1, Len(p)) = p

ParentOf(q) == SubSeq(q, 1, Len(q) - 1)

\* p comes before q in document order (neither is an ancestor of the other).
Before(p, q) ==
    \E i \in 1..Len(p) :
        /\ i <= Len(q)
        /\ SubSeq(p, 1, i - 1) = SubSeq(q, 1, i - 1)
        /\ p[i] < q[i]

\* The sibling nodes of a production container: the .database-node children of
\* its f7e-data-tree children.
ContainerNodes(d, c) ==
    {q \in WithClass(d, "database-node") :
        /\ Len(q) = Len(c) + 2
        /\ IsPrefix(c, q)
        /\ At(d, ParentOf(q)).tag = "f7e-data-tree"}

\* The sibling items of an emulator container.
ContainerItems(d, c) ==
    {q \in WithClass(d, "FieldPreview") :
        Len(q) = Len(c) + 1 /\ IsPrefix(c, q) /\ At(d, q).tag = "li"}

\* What each sibling that declares a key contributes: where it is, its key, and
\* the value parsed from it.
NodeEntries(d, c) ==
    {[at |-> n, key |-> fieldKeyOf(d, n), value |-> parseNode(d, n)[fieldKeyOf(d, n)]] :
        n \in {q \in ContainerNodes(d, c) : parseNode(d, q) # EmptyMap}}

ItemEntries(d, c) ==
    {[at |-> i,
      key |-> Trim(textContent(d, querySelector(d, i, Sel("", "FieldPreview-key")))),
      value |-> emulatorItemValue(d, i)] :
        i \in {q \in ContainerItems(d, c) :
                  querySelector(d, q, Sel("", "FieldPreview-key")) # NoElement}}

IsLastFor(e, entries) ==
    \A f \in entries : f.key = e.key => (f.at = e.at \/ Before(f.at, e.at))

LastWriteWins(m, entries) ==
    /\ DOMAIN m = {e.key : e \in entries}
    /\ \A e \in entries : IsLastFor(e, entries) => m[e.key] = e.value

\* C7: in every container parsed by parseMap or by parseEmulatorContainer the
\* map holds exactly the keys the siblings declare, and each key's value is the
\* one parsed from the last sibling, in document order, that declares it.
C7_LastWriteWins ==
    /\ call.fn = "parseMap" =>
          ret.k = "object" /\ LastWriteWins(ret.m, NodeEntries(doc, call.el))
    /\ call.fn = "parseEmulatorContainer" =>
          ret.k = "object" /\ LastWriteWins(ret.m, ItemEntries(doc, call.el))

C7_Witness ==
    /\ call.fn = "parseMap"
    /\ \E e, f \in NodeEntries(doc, call.el) :
          /\ e.key = f.key
          /\ Before(e.at, f.at)
          /\ e.value # f.value
          /\ IsLastFor(f, NodeEntries(doc, call.el))
          /\ ret.m[f.key] = f.value

IsContainerType(type) == type = <<"(map)">> \/ type = <<"(array)">>

EmptyFor(type) == IF type = <<"(array)">> THEN EmptyArr ELSE EmptyObj

\* A production node typed (map) or (array) with no direct children container.
MissingContainerA(d, n) ==
    /\ querySelector(d, n, Sel("", "database-key")) # NoElement
    /\ IsContainerType(typeTextOf(d, n))
    /\ ~\E q \in WithClass(d, "database-children") : ParentOf(q) = n /\ q # << >>

emulatorTypeOf(d, item) ==
    LET typeElem == querySelector(d, item, Sel("", "FieldPreview-type"))
    IN  IF typeElem # NoElement THEN Trim(textContent(d, typeElem)) ELSE EmptyString

\* An emulator item typed (map) or (array) whose next sibling is absent or is
\* not tagged as a children container.
MissingContainerB(d, item) ==
    /\ querySelector(d, item, Sel("", "FieldPreview-key")) # NoElement
    /\ IsContainerType(emulatorTypeOf(d, item))
    /\ LET parent == ParentOf(item)
           i == item[Len(item)]
       IN  \/ i = Len(At(d, parent).kids)
           \/ "FieldPreview-children" \notin At(d, parent).kids[i + 1].cls

IsOk(r) == "status" \in DOMAIN r /\ r.status = "ok"

\* Every declared key is in the map, the last declaration giving its value.
SiblingsKept(m, entries) ==
    \A e \in entries : e.key \in DOMAIN m /\ (IsLastFor(e, entries) => m[e.key] = e.value)

\* C8: an item typed (map) or (array) whose children container is absent parses
\* to the empty map or the empty array; its key is in the parent map (with that
\* empty value, unless a later sibling declares the key again); the siblings'
\* entries are in the parent as parsed; and getFirestoreJSON on a record that
\* holds such an item returns status ok.
C8_MissingContainerDegrades ==
    /\ (call.fn = "parseNode" /\ MissingContainerA(doc, call.el)) =>
          ret = [x \in {fieldKeyOf(doc, call.el)} |-> EmptyFor(typeTextOf(doc, call.el))]
    /\ call.fn = "parseMap" =>
          LET entries == NodeEntries(doc, call.el) IN
          \A e \in entries : MissingContainerA(doc, e.at) =>
              /\ e.value = EmptyFor(typeTextOf(doc, e.at))
              /\ ret.k = "object"
              /\ SiblingsKept(ret.m, entries)
    /\ call.fn = "parseArray" =>
          LET entries == NodeEntries(doc, call.el) IN
          \A e \in entries : (MissingContainerA(doc, e.at) /\ IsIndexKey(e.key)) =>
              /\ ret.k = "array"
              /\ DigitsValue(e.key) \in DOMAIN ret.at
              /\ IsLastFor(e, entries) =>
                    ret.at[DigitsValue(e.key)] = EmptyFor(typeTextOf(doc, e.at))
    /\ call.fn = "parseEmulatorContainer" =>
          LET entries == ItemEntries(doc, call.el) IN
          \A e \in entries : MissingContainerB(doc, e.at) =>
              /\ e.value = EmptyFor(emulatorTypeOf(doc, e.at))
              /\ ret.k = "object"
              /\ SiblingsKept(ret.m, entries)
    /\ call.fn = "getFirestoreJSON" =>
          /\ IsOk(ret)
          /\ \A element \in {q \in AllPaths(doc) : At(doc, q).tag = "fs-animate-change-classes"} :
                (/\ querySelector(doc, element, Sel("", "database-key")) # NoElement
                 /\ IsContainerType(typeTextOf(doc, element))
                 /\ querySelector(doc, element, Sel("", "database-children")) = NoElement)
                => fieldKeyOf(doc, element) \in DOMAIN ret.data.m[ret.docId].m

C8_Witness ==
    /\ call.fn = "parseMap"
    /\ \E e, f \in NodeEntries(doc, call.el) :
          /\ MissingContainerA(doc, e.at)
          /\ typeTextOf(doc, e.at) = <<"(map)">>
          /\ e.key # f.key
          /\ ret.m[e.key] = EmptyObj
          /\ ret.m[f.key] = f.value

(***************************************************************************)
(* SpecAssemble: getFirestoreJSON and the message listener applied to      *)
(* whole views: up to MaxRegions regions under the body, each an emulator  *)
(* field list, a panels container with its panels, or a panel outside any  *)
(* panels container, with well-formed and malformed fields.                *)
(***************************************************************************)
PanelP ==
    Panel(<<Header(<<"doc", "P">>),
            Animate(<<AStringNode(<<"p">>, <<"x">>)>>),
            Animate(<<ANode(<<AKey(<<"m">>), AButtons("(map)")>>)>>)>>)

PanelQ ==
    Panel(<<Animate(<<ANode(<<AKey(<<"q">>), AButtons("(array)"),
                              AChildren(<<ATree(<<AStringNode(<<"x">>, <<"y">>),
                                                  AStringNode(<<"1">>, <<"z">>)>>)>>)>>)>>),
            Animate(<<ANode(<<AButtons("(string)"), ALeaf(<<"y">>)>>)>>)>>)

PanelS == Panel(<<Header(<<WS, "doc", "S">>), Animate(<<AStringNode(<<"s">>, <<"1">>)>>)>>)

PanelsContainer(panels) == El("div", {"panels-container"}, << >>, panels)

Regions ==
    {El("div", {}, << >>,
        <<FieldList(<<BStringItem(<<"a">>, <<"x">>),
                      BItem(<<BKey(<<"n">>), BType("(number)"), BSummary(<<"x">>)>>)>>)>>),
     FieldList(<<BItem(<<BKey(<<"b">>), BType("(array)")>>),
                 BItem(<<BType("(map)")>>)>>),
     PanelsContainer(<<PanelP, PanelQ>>),
     PanelsContainer(<<PanelQ>>),
     PanelsContainer(<< >>),
     PanelS,
     El("div", {}, << >>, << >>)}

Views == {El("body", {}, << >>, s) : s \in SeqsUpTo(Regions, MaxRegions)}

Pathnames == {s \in SeqsUpTo({"/", "a", "b"}, MaxPathLen) : s # << >> /\ s[1] = "/"}

InitAssemble ==
    /\ doc \in Views
    /\ pathname \in Pathnames
    /\ arg = NoArg
    /\ call = NoCall
    /\ ret = Undefined
    /\ UiIdle

\* getFirestoreJSON(contextRoot), with any element of the view as contextRoot,
\* or with none.
CallGetFirestoreJSONOn ==
    \E contextRoot \in AllPaths(doc) \cup {NoElement} :
        Called("getFirestoreJSON", contextRoot, getFirestoreJSON(doc, pathname, contextRoot))

\* A message arrives and the listener answers it.
OnMessage ==
    \E action \in {"fetchFirestore", "ping"} :
        Called("onMessage", action, onMessage(doc, pathname, action))

NextAssemble == CallGetFirestoreJSONOn \/ OnMessage

SpecAssemble == InitAssemble /\ [][NextAssemble]_vars

(***************************************************************************)
(* Claims about root selection and assembly (SpecAssemble).                *)
(***************************************************************************)
\* The last element of a set of paths in document order.
LastInDocument(S) ==
    CHOOSE p \in S : \A q \in S : q = p \/ Before(q, p) \/ IsPrefix(q, p)

FirstInDocument(S) ==
    CHOOSE p \in S : \A q \in S : q = p \/ Before(p, q) \/ IsPrefix(p, q)

FieldLists(d) == WithClass(d, "Firestore-Field-List")

\* The open panels: the panels inside the view's panels container.
OpenPanels(d) ==
    LET containers == WithClass(d, "panels-container")
    IN  IF containers = {} THEN {}
        ELSE {q \in WithClass(d, "panel-container") :
                 q # FirstInDocument(containers) /\ IsPrefix(FirstInDocument(containers), q)}

ListsUnder(d, p) == {q \in FieldLists(d) : q # p /\ IsPrefix(p, q)}

\* The root the selection policy names, as [layout, root], or no root.
PolicyRoot(d, contextRoot) ==
    IF contextRoot = NoElement
    THEN IF FieldLists(d) # {} THEN [layout |-> "B", root |-> FirstInDocument(FieldLists(d))]
         ELSE IF OpenPanels(d) # {}
              THEN [layout |-> "A", root |-> LastInDocument(OpenPanels(d))]
         ELSE [layout |-> "none"]
    ELSE IF "Firestore-Field-List" \in At(d, contextRoot).cls
         THEN [layout |-> "B", root |-> contextRoot]
    ELSE IF "panel-container" \in At(d, contextRoot).cls
         THEN [layout |-> "A", root |-> contextRoot]
    ELSE IF ListsUnder(d, contextRoot) # {}
         THEN [layout |-> "B", root |-> FirstInDocument(ListsUnder(d, contextRoot))]
    ELSE [layout |-> "A", root |-> contextRoot]

\* The fields of the policy's root, parsed with the rest of the view cut away.
PolicyFields(d, contextRoot) ==
    LET chosen == PolicyRoot(d, contextRoot)
        scope == At(d, chosen.root)
    IN  IF chosen.layout = "B" THEN parseEmulatorContainer(scope, << >>)
        ELSE productionWalk(scope, << >>)

\* C2: getFirestoreJSON parses the root the selection policy names (without a
\* scope: a layout-B root if the view has one, else the last open panel; with a
\* scope: the scope as layout B or A if it is a root of that layout, else the
\* layout-B root below it, else the scope as layout A), with one walker, and the
\* fields are those of that root's subtree alone.
C2_RootSelection ==
    call.fn = "getFirestoreJSON" =>
        /\ ~(emulatorRootOf(doc, call.el) # NoElement
             /\ productionPanelOf(doc, call.el) # NoElement)
        /\ PolicyRoot(doc, call.el).layout # "none" =>
              /\ IsOk(ret)
              /\ ret.data.m[ret.docId] = PolicyFields(doc, call.el)

C2_Witness ==
    /\ call.fn = "getFirestoreJSON"
    /\ call.el = NoElement
    /\ FieldLists(doc) = {}
    /\ Cardinality(OpenPanels(doc)) = 2
    /\ Cardinality(WithClass(doc, "panel-container")) = 3
    /\ IsOk(ret)
    /\ ret.data.m[ret.docId] = productionWalk(At(doc, LastInDocument(OpenPanels(doc))), << >>)
    /\ ret.data.m[ret.docId] # productionWalk(At(doc, FirstInDocument(OpenPanels(doc))), << >>)

\* No layout-B root and no layout-A scope can be determined.
NoSource(d, contextRoot) ==
    contextRoot = NoElement /\ FieldLists(d) = {} /\ OpenPanels(d) = {}

HasSegment(loc) == \E i \in 1..Len(loc) : loc[i] # "/"

\* The last non-empty segment of a path: the tokens after the last separator
\* that has a token other than a separator after it.
LastNonEmptySegment(loc) ==
    LET stop == CHOOSE i \in 1..Len(loc) : loc[i] # "/" /\ \A j \in (i + 1)..Len(loc) : loc[j] = "/"
        start == CHOOSE i \in 1..stop :
                    /\ \A j \in i..stop : loc[j] # "/"
                    /\ i = 1 \/ loc[i - 1] = "/"
    IN  SubSeq(loc, start, stop)

\* C4 (as claimed): on the emulator path the document identifier is the last
\* non-empty segment of the location path, also for a path that ends with a
\* separator, and the wrapper is { [id]: fields }.
C4_DocIdLastNonEmptySegment ==
    (/\ call.fn = "getFirestoreJSON"
     /\ HasSegment(pathname)
     /\ PolicyRoot(doc, call.el).layout = "B")
    => /\ IsOk(ret)
       /\ ret.docId = LastNonEmptySegment(pathname)
       /\ DOMAIN ret.data.m = {LastNonEmptySegment(pathname)}

(***************************************************************************)
(* The copy buttons.  The host page renders scopes: field lists on the     *)
(* emulator's hosts, panels on the console's host.  A scope records        *)
(* whether an "Add field" control is found for it and its                  *)
(* dataset.hasJsonBtn flag.  A button records the scope its click handler  *)
(* closes over (a panel's button is inserted inside that panel, after the  *)
(* control), its innerText, the clicks suspended at the await of           *)
(* clipboard.writeText, and the originalText each pending setTimeout       *)
(* callback will restore, in the order the timers were set (all run 2000   *)
(* ms after being set, so in that order).                                  *)
(***************************************************************************)
COPY_JSON == "Copy JSON"

\* createCopyButton
createCopyButton(scope, place) ==
    [scope |-> scope, place |-> place, innerText |-> COPY_JSON,
     clicks |-> 0, awaiting |-> 0, timers |-> << >>]

\* injectEmulatorButton's forEach, from the i-th scope on.
RECURSIVE injectEmulatorFrom(_, _)
injectEmulatorFrom(st, i) ==
    IF i > Len(st.scopes) THEN st
    ELSE IF st.scopes[i].kind # "list" \/ st.scopes[i].hasJsonBtn
         THEN injectEmulatorFrom(st, i + 1)
    ELSE injectEmulatorFrom(
             [scopes |-> [st.scopes EXCEPT ![i].hasJsonBtn = TRUE],
              buttons |-> Append(st.buttons,
                              createCopyButton(i, IF st.scopes[i].addField
                                                  THEN "afterAddField" ELSE "beforeList"))],
             i + 1)

injectEmulatorButton(st) == injectEmulatorFrom(st, 1)

RECURSIVE injectProductionFrom(_, _), injectProductionAlways(_, _)

injectProductionAlways(st, i) ==
    IF i > Len(st.scopes) THEN st
    ELSE IF st.scopes[i].kind # "panel" \/ ~st.scopes[i].addField
         THEN injectProductionAlways(st, i + 1)
    ELSE injectProductionAlways(
             [scopes |-> [st.scopes EXCEPT ![i].hasJsonBtn = TRUE],
              buttons |-> Append(st.buttons, createCopyButton(i, "afterAddField"))],
             i + 1)

injectProductionButtonNoCheck(st) == injectProductionAlways(st, 1)

\* injectProductionButton's forEach, from the i-th scope on.
injectProductionFrom(st, i) ==
    IF i > Len(st.scopes) THEN st
    ELSE IF st.scopes[i].kind # "panel" \/ ~st.scopes[i].addField
         THEN injectProductionFrom(st, i + 1)
    ELSE IF \E b \in 1..Len(st.buttons) : st.buttons[b].scope = i
         THEN injectProductionFrom(st, i + 1)
    ELSE injectProductionFrom(
             [scopes |-> [st.scopes EXCEPT ![i].hasJsonBtn = TRUE],
              buttons |-> Append(st.buttons, createCopyButton(i, "afterAddField"))],
             i + 1)

injectProductionButton(st) == injectProductionFrom(st, 1)

EmulatorHosts == {"localhost", "127.0.0.1"}
ConsoleHost == "console.firebase.google.com"

injectButton(st, host) ==
    IF host \in EmulatorHosts THEN injectEmulatorButton(st)
    ELSE IF host = ConsoleHost THEN injectProductionButton(st)
    ELSE st

(***************************************************************************)
(* SpecUI: the host page renders scopes and controls, the observer runs    *)
(* injectButton, the user clicks, the clipboard settles, timers fire.      *)
(***************************************************************************)
ScopeOn(host, addField) ==
    [kind |-> IF host \in EmulatorHosts THEN "list" ELSE "panel",
     addField |-> addField, hasJsonBtn |-> FALSE]

\* The content script starts on a page that may already show scopes; nothing
\* calls injectButton until the observer reports a mutation.
InitUI ==
    /\ doc = NoDoc
    /\ pathname = EmptyString
    /\ arg = NoArg
    /\ call = NoCall
    /\ ret = Undefined
    /\ hostname \in EmulatorHosts \cup {ConsoleHost}
    /\ \E flags \in SeqsUpTo(BOOLEAN, 1) :
          scopes = [i \in 1..Len(flags) |-> ScopeOn(hostname, flags[i])]
    /\ buttons = << >>
    /\ records = FALSE
    /\ unseen = TRUE

parseVars == <<doc, pathname, arg, call, ret>>

\* The host page adds a panel or a field list, with or without its control.
HostAddsScope ==
    /\ Len(scopes) < MaxScopes
    /\ \E addField \in BOOLEAN : scopes' = Append(scopes, ScopeOn(hostname, addField))
    /\ records' = TRUE
    /\ unseen' = TRUE
    /\ UNCHANGED <<parseVars, hostname, buttons>>

\* The host page adds the "Add field" control of a scope it rendered earlier.
HostAddsControl ==
    /\ \E i \in 1..Len(scopes) :
          /\ ~scopes[i].addField
          /\ scopes' = [scopes EXCEPT ![i].addField = TRUE]
    /\ records' = TRUE
    /\ unseen' = TRUE
    /\ UNCHANGED <<parseVars, hostname, buttons>>

\* The MutationObserver callback: injectButton(); the buttons it inserts are
\* child-list mutations of the body's subtree and queue records in turn.
ObserverCallback ==
    /\ records
    /\ LET st == injectButton([scopes |-> scopes, buttons |-> buttons], hostname)
       IN  /\ scopes' = st.scopes
           /\ buttons' = st.buttons
           /\ records' = (Len(st.buttons) # Len(buttons))
    /\ unseen' = FALSE
    /\ UNCHANGED <<parseVars, hostname>>

\* A click: onClick() returns (getFirestoreJSON with a scope does not throw)
\* and the handler suspends at the await of clipboard.writeText.
Click ==
    /\ \E b \in 1..Len(buttons) :
          /\ buttons[b].clicks < MaxClicks
          /\ buttons' = [buttons EXCEPT ![b].clicks = @ + 1, ![b].awaiting = @ + 1]
    /\ UNCHANGED <<parseVars, hostname, scopes, records, unseen>>

\* writeText resolves: originalText is read, the label set, the timer set.
ClipboardResolves ==
    /\ \E b \in 1..Len(buttons) :
          /\ buttons[b].awaiting > 0
          /\ buttons' = [buttons EXCEPT ![b].awaiting = @ - 1,
                                        ![b].timers = Append(@, buttons[b].innerText),
                                        ![b].innerText = "Copied!"]
    /\ UNCHANGED <<parseVars, hostname, scopes, records, unseen>>

\* writeText rejects: the catch block.
ClipboardRejects ==
    /\ \E b \in 1..Len(buttons) :
          /\ buttons[b].awaiting > 0
          /\ buttons' = [buttons EXCEPT ![b].awaiting = @ - 1, ![b].innerText = "Error"]
    /\ UNCHANGED <<parseVars, hostname, scopes, records, unseen>>

\* The oldest pending setTimeout callback of a button runs.
TimerFires ==
    /\ \E b \in 1..Len(buttons) :
          /\ buttons[b].timers # << >>
          /\ buttons' = [buttons EXCEPT ![b].innerText = Head(buttons[b].timers),
                                        ![b].timers = Tail(@)]
    /\ UNCHANGED <<parseVars, hostname, scopes, records, unseen>>

NextUI ==
    \/ HostAddsScope
    \/ HostAddsControl
    \/ ObserverCallback
    \/ Click
    \/ ClipboardResolves
    \/ ClipboardRejects
    \/ TimerFires

SpecUI == InitUI /\ [][NextUI]_vars

ButtonsOf(i) == {b \in 1..Len(buttons) : buttons[b].scope = i}

\* C10: once injectButton has run on the view as it is, every panel and every
\* field list has at most one Copy JSON button, and each one that has an "Add
\* field" control has exactly one.
C10_InjectionIdempotent ==
    ~unseen =>
        \A i \in 1..Len(scopes) :
            /\ Cardinality(ButtonsOf(i)) <= 1
            /\ scopes[i].addField => Cardinality(ButtonsOf(i)) = 1

C10_Witness ==
    /\ hostname = ConsoleHost
    /\ ~unseen
    /\ ~records
    /\ Len(scopes) = 2
    /\ scopes[1].addField
    /\ ~scopes[2].addField
    /\ Cardinality(ButtonsOf(1)) = 1
    /\ ButtonsOf(2) = {}

====
